---- MODULE Spec2Model ----
(***************************************************************************)
(* Batch execution engine of package relayer (Orchestrator): recipe        *)
(* registry, bounded-concurrency scheduling through the semaphore channel, *)
(* per-task timeout, panic recovery and lifecycle hooks.                   *)
(*                                                                         *)
(* One Orchestrator is shared by the callers of ExecuteBatch.  Every       *)
(* goroutine started by ExecuteBatch is a task <<c, i>>: caller c, index i *)
(* of its batch.  Time passes in ticks; every task context carries the     *)
(* number of ticks left until its deadline.  Durations are measured in     *)
(* ticks, up to the deadline of the task context.                          *)
(***************************************************************************)
EXTENDS Integers, Sequences, FiniteSets, TLC

\* ---------------------------------------------------------------- bounds
MaxTasks == 2
MaxRegs == 2
MaxRegTasks == 1
MaxCtxLen == 4
MaxOpts == 2

\* A nil pointer / nil interface / absent argument is the empty sequence, a
\* present value a one-element sequence.
Nil == << >>
Some(v) == << v >>

\* ---------------------------------------------------------------- inputs
Callers == {1, 2}
Slots == 1..MaxTasks

SubRequest(id, tenant, recipe) ==
    [ID |-> id, TenantID |-> tenant, Recipe |-> recipe]

Requests ==
    { SubRequest("1", "a", "r1"),
      SubRequest("1", "b", "r2"),
      SubRequest("", "a", "r1"),
      SubRequest("2", "", "r1"),
      SubRequest("2", "b", "") }

BatchesUpTo(n) == UNION { [1..k -> Requests] : k \in 0..n }

Timeouts == {1}
Concurrencies == {0, MaxTasks - 1}
BatchLimits == {0, 1}

PanicValues == {"boom"}

\* Arguments of the registration calls: "" is the empty name, "nil" the nil
\* Handler; the variadic opts are absent (Nil) or one RecipeOption with the
\* given Timeout.  Handler h1 ignores its context and may return a value, a
\* value with an error, or panic; h2 watches its context and returns
\* ctx.Err() once the context is done, the value "v2" otherwise.
Names == {"", "r1", "r2"}
HandlerArgs == {"nil", "h1", "h2"}
OptionArgs == {Nil, Some(0), Some(2)}

\* The calls tried: every handler and option for "r1", but the nil handler
\* with a zero Timeout; "r2" is never given h1 or a zero Timeout; the empty
\* name comes with the nil handler or h1 and without an option.
RegisterArgs ==
    { a \in Names \X HandlerArgs \X OptionArgs :
        /\ a[1] = "r2" => (a[2] # "h1" /\ a[3] # Some(0))
        /\ a[1] = "" => (a[2] # "h2" /\ a[3] = Nil)
        /\ a[2] = "nil" => a[3] # Some(0) }

\* The strict calls tried: a name with h2, with and without an option, and
\* the two calls that fail validation.
StrictArgs ==
    { a \in RegisterArgs :
        \/ a[1] # "" /\ a[2] = "h2" /\ a[3] # Some(0)
        \/ a[1] # "r2" /\ a[2] # "h2" /\ a[3] = Nil /\ (a[1] = "" \/ a[2] = "nil") }

\* ---------------------------------------------------------------- types.go
ErrCodeRecipeNotFound == "RECIPE_NOT_FOUND"
ErrCodeTimeout == "TIMEOUT"
ErrCodePanic == "PANIC"
ErrCodeRecipeExecution == "RECIPE_EXECUTION"
ErrCodeBatchTooLarge == "BATCH_TOO_LARGE"
ErrCodeInvalidRequest == "INVALID_REQUEST"

Error(code, message) == Some([Code |-> code, Message |-> message])

Response(id, status, data, err, tenant) ==
    [ID |-> id, Status |-> status, Data |-> data, Error |-> err,
     TenantID |-> tenant, Duration |-> 0]

ZeroResponse == Response("", 0, Nil, Nil, "")

\* FilterByTenant: the responses of one tenant, in their order.
FilterByTenant(responses, tenantID) ==
    SelectSeq(responses, LAMBDA resp : resp.TenantID = tenantID)

\* fmt's %d verb on the small non-negative integers the model uses.
Itoa(n) ==
    CASE n = 0 -> "0" [] n = 1 -> "1" [] n = 2 -> "2" [] n = 3 -> "3"
      [] n = 4 -> "4" [] n = 5 -> "5" [] n = 6 -> "6" [] n = 7 -> "7"
      [] n = 8 -> "8" [] n = 9 -> "9"

\* ---------------------------------------------------------------- context.go
\* A context is the chain of the key/value pairs added to it, oldest first;
\* context.Background() carries none.  A key is an interface value: its
\* dynamic type and its value.  Two keys are equal when both agree.
Background == << >>

Key(type, val) == << type, val >>

KeyEq(a, b) == a[1] = b[1] /\ a[2] = b[2]

\* A plausible slip: the key is a plain string, as any package may use.
tenantIDKeyString == Key("string", "tenant_id")

\* const ( tenantIDKey contextKey = iota; requestIDKey; recipeNameKey )
tenantIDKey == Key("contextKey", "0")
requestIDKey == Key("contextKey", "1")
recipeNameKey == Key("contextKey", "2")

\* Keys other packages may use: strings named like the fields, and the plain
\* int 0, which has the value of tenantIDKey and another type.
ForeignKeys ==
    { Key("string", "tenant_id"), Key("string", "request_id"), Key("int", "0") }

CtxValues == {"a", "b"}

\* context.WithValue
WithValue(ctx, key, val) == Append(ctx, << key, val >>)

\* Context.Value: the value of the newest pair with an equal key, Nil (the
\* nil interface) when there is none.
Value(ctx, key) ==
    LET hits == { k \in 1..Len(ctx) : KeyEq(ctx[k][1], key) }
        last == CHOOSE k \in hits : \A m \in hits : m <= k
    IN IF hits = {} THEN Nil ELSE Some(ctx[last][2])

\* v, ok := ctx.Value(key).(string): every value of the model is a string.
AsString(v) == IF v = Nil THEN << "", FALSE >> ELSE << v[1], TRUE >>

WithTenantID(ctx, tenantID) == WithValue(ctx, tenantIDKey, tenantID)
TenantID(ctx) == AsString(Value(ctx, tenantIDKey))

\* A plausible slip: the request id is stored under the tenant's key.
WithRequestIDAsTenant(ctx, requestID) == WithValue(ctx, tenantIDKey, requestID)

WithRequestID(ctx, requestID) == WithValue(ctx, requestIDKey, requestID)
RequestID(ctx) == AsString(Value(ctx, requestIDKey))

\* A plausible slip: the new pair is put behind the older ones, so a value
\* that is already set wins.
WithRecipeNameBehind(ctx, recipeName) ==
    << << recipeNameKey, recipeName >> >> \o ctx

WithRecipeName(ctx, recipeName) == WithValue(ctx, recipeNameKey, recipeName)
RecipeName(ctx) == AsString(Value(ctx, recipeNameKey))

\* The enrichment of executeRequest.
Enrich(ctx, req) ==
    WithRecipeName(WithRequestID(WithTenantID(ctx, req.TenantID), req.ID),
                   req.Recipe)

\* ---------------------------------------------------------------- errors
panicError == [IsPanic |-> TRUE, Text |-> "internal error during recipe execution"]
PlainError(text) == [IsPanic |-> FALSE, Text |-> text]

\* How a registration call ended: "ok", "panic" with the panic message, or
\* "error" with the text of the returned error; "none" before any call.
RegOutcome(kind, text) == [Kind |-> kind, Text |-> text]

\* ---------------------------------------------------------------- options.go
\* An Option is the function one of the With constructors returns; New
\* applies them in order to the Orchestrator o under construction.  A field
\* "panic" records the panic that ends the construction.
Opt(name, n, hook) == [Name |-> name, N |-> n, Hook |-> hook]

OptionInts == {-1, 0, 1}
HookArgs == {"nil", "custom"}

Options ==
    { Opt(f, n, "") : f \in {"WithTimeout", "WithMaxConcurrency", "WithMaxBatchSize"},
                      n \in OptionInts }
    \cup { Opt(f, 0, h) : f \in {"WithExecutionHook", "WithPanicHook"},
                          h \in HookArgs }

OptionLists == UNION { [1..k -> Options] : k \in 0..MaxOpts }

Panics(o, msg) == [o EXCEPT !.panic = Some(msg)]

\* A plausible slip: the timeout is stored unchecked.
WithTimeoutUnchecked(o, d) == [o EXCEPT !.timeout = d]

WithTimeout(o, d) ==
    IF d <= 0 THEN Panics(o, "timeout must be positive")
    ELSE [o EXCEPT !.timeout = d]

\* A plausible slip: a nil hook is stored as it is.
KeepHook(hook) == hook

\* if hook == nil { &NoOpHook{} } else { hook }
OrNoOp(hook) == IF hook = "nil" THEN "NoOpHook" ELSE hook

WithExecutionHook(o, hook) == [o EXCEPT !.executionHook = OrNoOp(hook)]

WithPanicHook(o, hook) == [o EXCEPT !.panicHook = OrNoOp(hook)]

\* A plausible slip: only zero is rejected.
WithMaxConcurrencyZeroCheck(o, max) ==
    IF max = 0 THEN Panics(o, "max concurrency must be non-negative")
    ELSE [o EXCEPT !.maxConcurrency = max]

WithMaxConcurrency(o, max) ==
    IF max < 0 THEN Panics(o, "max concurrency must be non-negative")
    ELSE [o EXCEPT !.maxConcurrency = max]

WithMaxBatchSize(o, max) ==
    IF max < 0 THEN Panics(o, "max batch size must be non-negative")
    ELSE [o EXCEPT !.maxBatchSize = max]

\* opt(o)
ApplyOption(o, opt) ==
    CASE opt.Name = "WithTimeout" -> WithTimeout(o, opt.N)
      [] opt.Name = "WithMaxConcurrency" -> WithMaxConcurrency(o, opt.N)
      [] opt.Name = "WithMaxBatchSize" -> WithMaxBatchSize(o, opt.N)
      [] opt.Name = "WithExecutionHook" -> WithExecutionHook(o, opt.Hook)
      [] opt.Name = "WithPanicHook" -> WithPanicHook(o, opt.Hook)

\* for _, opt := range opts { opt(o) }: a panic ends the loop.
RECURSIVE ApplyOptions(_, _)
ApplyOptions(o, opts) ==
    IF opts = << >> \/ o.panic # Nil THEN o
    ELSE ApplyOptions(ApplyOption(o, Head(opts)), Tail(opts))

\* The default timeout of New, 5 seconds, in ticks.
DefaultTimeout == 5

\* The composite literal of New.
NewDefaults ==
    [timeout |-> DefaultTimeout, executionHook |-> "NoOpHook",
     panicHook |-> "NoOpHook", maxConcurrency |-> 0, maxBatchSize |-> 0,
     panic |-> Nil]

\* ---------------------------------------------------------------- state
VARIABLES
    timeout,          \* Orchestrator.timeout (clock ticks)
    maxConcurrency,   \* Orchestrator.maxConcurrency
    maxBatchSize,     \* Orchestrator.maxBatchSize
    registry,         \* Orchestrator.registry: name -> handler
    recipeOptions,    \* Orchestrator.recipeOptions: name -> RecipeOption.Timeout
    semaphore,        \* number of elements buffered in Orchestrator.semaphore
    batch,            \* batch[c]: the []SubRequest caller c passes
    callPc,           \* "ready", "waiting" (in wg.Wait) or "returned";
                      \* "absent" when the caller makes no call
    batchErr,         \* ctx.Err() of the context caller c passes; caller 2
                      \* passes context.Background(), which is never done
    results,          \* results[c]: the []Response of the call
    wg,               \* the call's WaitGroup counter
    pc,               \* pc[c][i]: position of the goroutine of request i
    taskErr,          \* taskCtx.Err() of the task
    timer,            \* ticks left until the deadline of taskCtx, 0 when the
                      \* deadline has passed or no context exists
    waited,           \* ticks the task spent blocked on the semaphore, counted
                      \* up to its effective timeout, while the task runs
    handlerCalls,     \* how often a handler was invoked for the task
    startCalls,       \* how often executionHook.OnStart was invoked for it
    completeCalls,    \* the responses passed to executionHook.OnComplete
    panicCalls,       \* the values passed to panicHook.OnPanic
    handler,          \* the Handler the task copied out of the registry
    ended,            \* how the handler call ended, Nil before
    expired,          \* where the task was when the deadline of its context
                      \* passed ("lookup", "running"), "none" before
    waitCancelled,    \* the batch context was cancelled while the task
                      \* waited for a slot with all slots taken
    taskTimeout,      \* the local variable timeout of executeRequest
    regs,             \* number of registration calls made so far
    regResult,        \* how the last registration call ended: "none", "ok",
                      \* the panic message or the returned error
    executionHook,    \* Orchestrator.executionHook: "nil", "NoOpHook" or "custom"
    panicHook,        \* Orchestrator.panicHook, likewise
    newResult,        \* how New ended: "ok" or the panic message; "none"
                      \* before the call
    mu,               \* Orchestrator.mu: the number of read locks held (the
                      \* write lock is taken and released within one step)
    batchCtx,         \* the values of the context caller c passes (or builds)
    taskCtx           \* the values of taskCtx, the context of the task

vars == << timeout, maxConcurrency, maxBatchSize, registry, recipeOptions,
           semaphore, batch, callPc, batchErr, results, wg, pc,
           taskErr, timer, waited, handler, handlerCalls, startCalls,
           completeCalls, panicCalls, ended, expired, waitCancelled,
           taskTimeout, regs, regResult, batchCtx, taskCtx, mu,
           executionHook, panicHook, newResult >>

orchVars == << timeout, maxConcurrency, maxBatchSize, registry, recipeOptions,
               regs, regResult, executionHook, panicHook, newResult >>
hookVars == << startCalls, completeCalls, panicCalls >>

EmptyMap == [n \in {} |-> "nil"]

Tasks == { t \in Callers \X Slots : t[2] <= Len(batch[t[1]]) }

PerTask(v) == [c \in Callers |-> [i \in Slots |-> v]]

\* ---------------------------------------------------------------- New
\* The calls to come, none started, on an Orchestrator nobody uses yet.
InitCalls(batches) ==
    /\ recipeOptions = EmptyMap
    /\ semaphore = 0
    /\ batch \in batches
    /\ callPc = [c \in Callers |->
                    IF c = 1 \/ Len(batch[c]) > 0 THEN "ready" ELSE "absent"]
    /\ batchErr = [c \in Callers |-> "none"]
    /\ results = [c \in Callers |-> << >>]
    /\ wg = [c \in Callers |-> 0]
    /\ pc = PerTask("idle")
    /\ taskErr = PerTask("none")
    /\ timer = PerTask(0)
    /\ waited = PerTask(0)
    /\ handler = PerTask("nil")
    /\ handlerCalls = PerTask(0)
    /\ startCalls = PerTask(0)
    /\ completeCalls = PerTask(<< >>)
    /\ panicCalls = PerTask(<< >>)
    /\ ended = PerTask(Nil)
    /\ expired = PerTask("none")
    /\ waitCancelled = PerTask(FALSE)
    /\ taskTimeout = PerTask(0)
    /\ regs = 0
    /\ regResult = RegOutcome("none", "")
    /\ batchCtx = [c \in Callers |-> Background]
    /\ mu = 0
    /\ taskCtx = PerTask(Background)

\* The state after New with the options WithTimeout, WithMaxConcurrency,
\* WithMaxBatchSize and recording hooks, and after the registrations reg.
InitOrch(batches, reg) ==
    /\ timeout \in Timeouts
    /\ maxConcurrency \in Concurrencies
    /\ maxBatchSize \in BatchLimits
    /\ executionHook = "custom"
    /\ panicHook = "custom"
    /\ newResult = RegOutcome("ok", "")
    /\ registry = reg
    /\ InitCalls(batches)

\* New(opts...): the Orchestrator is there when no option panicked.  The
\* semaphore channel is made when maxConcurrency > 0 and is empty.
New(opts) ==
    LET o == ApplyOptions(NewDefaults, opts) IN
    /\ newResult.Kind = "none"
    /\ IF o.panic # Nil
       THEN /\ newResult' = RegOutcome("panic", o.panic[1])
            /\ UNCHANGED << timeout, maxConcurrency, maxBatchSize,
                            executionHook, panicHook >>
       ELSE /\ newResult' = RegOutcome("ok", "")
            /\ timeout' = o.timeout
            /\ maxConcurrency' = o.maxConcurrency
            /\ maxBatchSize' = o.maxBatchSize
            /\ executionHook' = o.executionHook
            /\ panicHook' = o.panicHook
    /\ UNCHANGED << registry, recipeOptions, regs, regResult, semaphore, batch,
                    batchCtx, mu, callPc, batchErr, results, wg, pc, taskErr,
                    timer, waited, handler, handlerCalls, hookVars, ended,
                    expired, waitCancelled, taskTimeout, taskCtx >>

\* Recipe r1 is registered with handler h1 before the calls start.
InitWith(batches) == InitOrch(batches, "r1" :> "h1")

\* The two calls submit at most MaxTasks requests together; the requests
\* after the second of a batch are answered without a handler (no tenant,
\* or a recipe that is not registered).
Init ==
    InitWith({ b \in [Callers -> BatchesUpTo(MaxTasks)] :
                 /\ Len(b[1]) + Len(b[2]) <= MaxTasks
                 /\ Len(b[2]) <= Len(b[1])
                 /\ \A i \in 3..Len(b[1]) :
                       b[1][i] \in { SubRequest("2", "", "r1"),
                                     SubRequest("1", "b", "r2") }
                 /\ \A i \in 1..Len(b[2]) : b[2][i] = SubRequest("1", "a", "r1") })

\* ---------------------------------------------------------------- ExecuteBatch
\* A plausible slip: the two numbers of the message are swapped.
TooLargeMessageSwapped(n, limit) ==
    "batch size " \o Itoa(limit) \o " exceeds limit of " \o Itoa(n)

TooLargeMessage(n, limit) ==
    "batch size " \o Itoa(n) \o " exceeds limit of " \o Itoa(limit)

TooLarge(b, limit) ==
    [i \in 1..Len(b) |->
        Response(b[i].ID, 413, Nil,
                 Error(ErrCodeBatchTooLarge, TooLargeMessage(Len(b), limit)),
                 b[i].TenantID)]

\* A plausible slip: a batch of exactly the limit is turned down too.
ExceedsLimitInclusive(n, limit) == limit > 0 /\ n >= limit

ExceedsLimit(n, limit) == limit > 0 /\ n > limit

ExecuteBatch(c) ==
    /\ newResult.Kind = "ok"
    /\ callPc[c] = "ready"
    /\ IF ExceedsLimit(Len(batch[c]), maxBatchSize)
       THEN /\ results' = [results EXCEPT ![c] = TooLarge(batch[c], maxBatchSize)]
            /\ callPc' = [callPc EXCEPT ![c] = "returned"]
            /\ UNCHANGED << wg, pc >>
       ELSE /\ results' = [results EXCEPT ![c] =
                              [i \in 1..Len(batch[c]) |-> ZeroResponse]]
            /\ wg' = [wg EXCEPT ![c] = Len(batch[c])]
            /\ pc' = [pc EXCEPT ![c] =
                        [i \in Slots |->
                            IF i <= Len(batch[c]) THEN "acquire" ELSE "idle"]]
            /\ callPc' = [callPc EXCEPT ![c] = "waiting"]
    /\ UNCHANGED << orchVars, semaphore, batch, batchCtx, mu, batchErr, taskErr,
                    timer, waited, handler, handlerCalls, hookVars, ended,
                    expired, waitCancelled,
                    taskTimeout, taskCtx >>

\* A plausible slip: the call returns without wg.Wait().
ReturnEarly(c) ==
    /\ callPc[c] = "waiting"
    /\ callPc' = [callPc EXCEPT ![c] = "returned"]
    /\ UNCHANGED << orchVars, semaphore, batch, batchCtx, mu, batchErr, results, wg,
                    pc, taskErr, timer, waited, handler, handlerCalls,
                    hookVars, ended, expired, waitCancelled,
                    taskTimeout, taskCtx >>

\* wg.Wait() and the return of the results.
Return(c) ==
    /\ callPc[c] = "waiting"
    /\ wg[c] = 0
    /\ callPc' = [callPc EXCEPT ![c] = "returned"]
    /\ UNCHANGED << orchVars, semaphore, batch, batchCtx, mu, batchErr, results, wg,
                    pc, taskErr, timer, waited, handler, handlerCalls,
                    hookVars, ended, expired, waitCancelled,
                    taskTimeout, taskCtx >>

\* ---------------------------------------------------------------- executeRequest
\* A plausible slip: the response is appended in completion order, that is,
\* stored in the first slot nobody has written yet.
WriteSlotAppend(rs, i, resp) ==
    LET free == { k \in 1..Len(rs) : rs[k].Status = 0 }
        first == CHOOSE k \in free : \A m \in free : k <= m
    IN [rs EXCEPT ![first] = resp]

\* A plausible slip: every goroutine is handed the address of the first
\* slot.
WriteSlotShared(rs, i, resp) == [rs EXCEPT ![1] = resp]

\* *result = resp, with result = &results[i]
WriteSlot(rs, i, resp) == [rs EXCEPT ![i] = resp]

\* A plausible slip: the tenant is not checked.
IsInvalidNoTenant(req) == req.ID = "" \/ req.Recipe = ""

IsInvalid(req) == req.ID = "" \/ req.TenantID = "" \/ req.Recipe = ""

\* A plausible slip: the validation failure is answered 422.
InvalidResponseUnprocessable(req) ==
    Response(req.ID, 422, Nil,
             Error("UNPROCESSABLE",
                   "request must have non-empty ID, TenantID, and Recipe"),
             req.TenantID)

InvalidResponse(req) ==
    Response(req.ID, 400, Nil,
             Error(ErrCodeInvalidRequest,
                   "request must have non-empty ID, TenantID, and Recipe"),
             req.TenantID)

\* A plausible slip: the override is never consulted.
EffectiveTimeoutDefaultOnly(opts, default, name) == default

\* The per-recipe override when one is stored and positive, else o.timeout.
EffectiveTimeout(opts, default, name) ==
    IF name \in DOMAIN opts /\ opts[name] > 0 THEN opts[name] ELSE default

\* A plausible slip: the channel is made one element too large.
CanAcquireOneMore(held, limit) == limit = 0 \/ held <= limit

\* A send on the buffered channel goes through while the buffer has room.
CanAcquire(held, limit) == limit = 0 \/ held < limit

AfterAcquire(held, limit) == IF limit > 0 THEN held + 1 ELSE held

\* A plausible slip: the slot is never given back.
AfterReleaseForgotten(held, limit) == held

AfterRelease(held, limit) == IF limit > 0 THEN held - 1 ELSE held

\* ---------------------------------------------------------------- sync.RWMutex
\* o.mu.Lock() goes through when nobody holds a read lock; it is released
\* by the deferred Unlock() of the same step.
CanLock(readers) == readers = 0

RLock(readers) == readers + 1

\* A plausible slip: the read lock is released by a defer, when safeExecute
\* returns, and the model keeps it.
RUnlockDeferred(readers) == readers

RUnlock(readers) == readers - 1

\* ---------------------------------------------------------------- RegisterRecipe
\* A plausible slip: an existing entry is kept (first writer wins).
PutIfAbsent(f, k, v) ==
    [x \in DOMAIN f \cup {k} |-> IF x \in DOMAIN f THEN f[x] ELSE v]

\* m[k] = v on a Go map.
Put(f, k, v) == [x \in DOMAIN f \cup {k} |-> IF x = k THEN v ELSE f[x]]

\* A plausible slip: the handler is not checked.
ValidateNameOnly(name, h) ==
    IF name = "" THEN Some("recipe name cannot be empty") ELSE Nil

\* The checks that panic at the call site; Nil when the arguments pass.
ValidateRegistration(name, h) ==
    IF name = "" THEN Some("recipe name cannot be empty")
    ELSE IF h = "nil" THEN Some("recipe handler cannot be nil")
    ELSE Nil

\* The option map after a registration: only a given option is stored.
WithOption(opts, name, opt) ==
    IF opt # Nil THEN Put(opts, name, opt[1]) ELSE opts

RegisterRecipe(name, h, opt) ==
    /\ newResult.Kind = "ok"
    /\ regs < MaxRegs
    /\ ValidateRegistration(name, h) = Nil => CanLock(mu)
    /\ regs' = regs + 1
    /\ IF ValidateRegistration(name, h) # Nil
       THEN /\ regResult' = RegOutcome("panic", ValidateRegistration(name, h)[1])
            /\ UNCHANGED << registry, recipeOptions >>
       ELSE /\ registry' = Put(registry, name, h)
            /\ recipeOptions' = WithOption(recipeOptions, name, opt)
            /\ regResult' = RegOutcome("ok", "")
    /\ UNCHANGED << timeout, maxConcurrency, maxBatchSize, executionHook,
                    panicHook, newResult, semaphore, batch, batchCtx, mu,
                    callPc, batchErr, results, wg, pc, taskErr, timer, waited,
                    handler, handlerCalls, hookVars, ended, expired,
                    waitCancelled, taskTimeout, taskCtx >>

\* A plausible slip: the strict path overwrites like RegisterRecipe.
RegisterRecipeStrictOverwrites(name, h, opt) == RegisterRecipe(name, h, opt)

\* register_strict of the specification: the validation of RegisterRecipe,
\* then an "already registered" error instead of an overwrite.
RegisterRecipeStrict(name, h, opt) ==
    /\ newResult.Kind = "ok"
    /\ regs < MaxRegs
    /\ ValidateRegistration(name, h) = Nil => CanLock(mu)
    /\ regs' = regs + 1
    /\ IF ValidateRegistration(name, h) # Nil
       THEN /\ regResult' = RegOutcome("panic", ValidateRegistration(name, h)[1])
            /\ UNCHANGED << registry, recipeOptions >>
       ELSE IF name \in DOMAIN registry
       THEN /\ regResult' = RegOutcome("error", "already registered")
            /\ UNCHANGED << registry, recipeOptions >>
       ELSE /\ registry' = Put(registry, name, h)
            /\ recipeOptions' = WithOption(recipeOptions, name, opt)
            /\ regResult' = RegOutcome("ok", "")
    /\ UNCHANGED << timeout, maxConcurrency, maxBatchSize, executionHook,
                    panicHook, newResult, semaphore, batch, batchCtx, mu,
                    callPc, batchErr, results, wg, pc, taskErr, timer, waited,
                    handler, handlerCalls, hookVars, ended, expired,
                    waitCancelled, taskTimeout, taskCtx >>

\* ---------------------------------------------------------------- context
\* context.WithTimeout on a parent that is already done yields a context
\* that is done with the parent's error.
DerivedErr(parentErr) == parentErr

\* defer cancel(): a context that is not done yet becomes Canceled; one that
\* is done keeps its error.
Cancelled(ctxErr) == IF ctxErr = "none" THEN "Canceled" ELSE ctxErr

\* A plausible slip: the enriched context is stored back into the context
\* the goroutines of the call share with the caller.
AcquireEnrichesCaller(c, i) ==
    LET req == batch[c][i] IN
    /\ pc[c][i] = "acquire"
    /\ CanAcquire(semaphore, maxConcurrency)
    /\ IF IsInvalid(req)
       THEN /\ results' = [results EXCEPT ![c] =
                              WriteSlot(@, i, InvalidResponse(req))]
            /\ semaphore' = AfterRelease(AfterAcquire(semaphore, maxConcurrency),
                                         maxConcurrency)
            /\ pc' = [pc EXCEPT ![c][i] = "wgdone"]
            /\ waited' = [waited EXCEPT ![c][i] = 0]
            /\ UNCHANGED << taskErr, timer, taskTimeout, taskCtx, mu, batchCtx >>
       ELSE /\ semaphore' = AfterAcquire(semaphore, maxConcurrency)
            /\ taskTimeout' = [taskTimeout EXCEPT ![c][i] =
                 EffectiveTimeout(recipeOptions, timeout, req.Recipe)]
            /\ timer' = [timer EXCEPT ![c][i] = taskTimeout'[c][i]]
            /\ batchCtx' = [batchCtx EXCEPT ![c] = Enrich(@, req)]
            /\ taskCtx' = [taskCtx EXCEPT ![c][i] = batchCtx'[c]]
            /\ mu' = RUnlock(RLock(mu))
            /\ taskErr' = [taskErr EXCEPT ![c][i] = DerivedErr(batchErr[c])]
            /\ pc' = [pc EXCEPT ![c][i] = "lookup"]
            /\ UNCHANGED << results, waited >>
    /\ UNCHANGED << orchVars, batch, callPc, batchErr, wg, handler,
                    handlerCalls, hookVars, ended, expired, waitCancelled >>

\* Slot acquisition, validation, context enrichment and timeout resolution.
\* An invalid request is answered here; its deferred slot release runs in
\* the same step, the deferred wg.Done() is the step WgDone.
Acquire(c, i) ==
    LET req == batch[c][i] IN
    /\ pc[c][i] = "acquire"
    /\ CanAcquire(semaphore, maxConcurrency)
    /\ IF IsInvalid(req)
       THEN /\ results' = [results EXCEPT ![c] =
                              WriteSlot(@, i, InvalidResponse(req))]
            /\ semaphore' = AfterRelease(AfterAcquire(semaphore, maxConcurrency),
                                         maxConcurrency)
            /\ pc' = [pc EXCEPT ![c][i] = "wgdone"]
            /\ waited' = [waited EXCEPT ![c][i] = 0]
            /\ UNCHANGED << taskErr, timer, taskTimeout, taskCtx, mu >>
       ELSE /\ semaphore' = AfterAcquire(semaphore, maxConcurrency)
            /\ taskTimeout' = [taskTimeout EXCEPT ![c][i] =
                 EffectiveTimeout(recipeOptions, timeout, req.Recipe)]
            /\ timer' = [timer EXCEPT ![c][i] = taskTimeout'[c][i]]
            /\ taskCtx' = [taskCtx EXCEPT ![c][i] = Enrich(batchCtx[c], req)]
            /\ mu' = RUnlock(RLock(mu))
            /\ taskErr' = [taskErr EXCEPT ![c][i] = DerivedErr(batchErr[c])]
            /\ pc' = [pc EXCEPT ![c][i] = "lookup"]
            /\ UNCHANGED << results, waited >>
    /\ UNCHANGED << orchVars, batch, batchCtx, callPc, batchErr, wg, handler,
                    handlerCalls, hookVars, ended, expired, waitCancelled >>

\* ---------------------------------------------------------------- safeExecute
\* A plausible slip: a missing recipe is reported as an execution error.
NotFoundAsExecutionError(req) ==
    Response(req.ID, 500, Nil,
             Error(ErrCodeRecipeExecution,
                   "recipe '" \o req.Recipe \o "' not found"),
             "")

NotFoundResponse(req) ==
    Response(req.ID, 404, Nil,
             Error(ErrCodeRecipeNotFound,
                   "recipe '" \o req.Recipe \o "' not found"),
             "")

\* What a handler call can do: return (data, err) or panic with a value.
HandlerOutcomes ==
    { [Data |-> Some("ok"), Err |-> Nil, Recovered |-> Nil],
      [Data |-> Some("ok"), Err |-> Some(PlainError("failed")), Recovered |-> Nil] }
    \cup { [Data |-> Nil, Err |-> Nil, Recovered |-> Some(v)] : v \in PanicValues }

\* context.Context.Err().Error() of a done context.
CtxErrText(e) ==
    IF e = "Canceled" THEN "context canceled" ELSE "context deadline exceeded"

\* A handler that watches its context.
ObservingOutcomes(ctxErr) ==
    IF ctxErr = "none"
    THEN { [Data |-> Some("v2"), Err |-> Nil, Recovered |-> Nil] }
    ELSE { [Data |-> Nil, Err |-> Some(PlainError(CtxErrText(ctxErr))),
            Recovered |-> Nil] }

OutcomesOf(h, ctxErr) ==
    IF h = "h2" THEN ObservingOutcomes(ctxErr) ELSE HandlerOutcomes

\* A plausible slip: the recovered value is formatted into the error.
RecoveredLeaks(o) ==
    IF o.Recovered # Nil
    THEN [Data |-> Nil,
          Err |-> Some([IsPanic |-> TRUE, Text |-> o.Recovered[1]])]
    ELSE [Data |-> o.Data, Err |-> o.Err]

\* The deferred recover(): a panic leaves data unset and err = &panicError{}.
Recovered(o) ==
    IF o.Recovered # Nil
    THEN [Data |-> Nil, Err |-> Some(panicError)]
    ELSE [Data |-> o.Data, Err |-> o.Err]

\* A plausible slip: any done context counts as a timeout (ctx.Err() != nil).
TimedOutAnyErr(ctxErr) == ctxErr # "none"

\* ctx.Err() == context.DeadlineExceeded
TimedOut(ctxErr) == ctxErr = "DeadlineExceeded"

\* A plausible slip: the error responses carry the handler's data along.
ClassifyKeepsData(req, ctxErr, data, err) ==
    IF ctxErr = "DeadlineExceeded"
    THEN Response(req.ID, 504, data,
                  Error(ErrCodeTimeout, "recipe execution timed out"), "")
    ELSE IF err # Nil
    THEN IF err[1].IsPanic
         THEN Response(req.ID, 500, data, Error(ErrCodePanic, err[1].Text), "")
         ELSE Response(req.ID, 500, data,
                       Error(ErrCodeRecipeExecution, err[1].Text), "")
    ELSE Response(req.ID, 200, data, Nil, "")

\* A plausible slip: the handler's error is replaced by a fixed text.
ErrorStringGeneric(e) == "recipe execution failed"

\* err.Error()
ErrorString(e) == e.Text

\* A plausible slip: the panic sentinel is tested before the deadline.
ClassifyPanicFirst(req, ctxErr, data, err) ==
    IF err # Nil /\ err[1].IsPanic
    THEN Response(req.ID, 500, Nil, Error(ErrCodePanic, ErrorString(err[1])), "")
    ELSE IF TimedOut(ctxErr)
    THEN Response(req.ID, 504, Nil,
                  Error(ErrCodeTimeout, "recipe execution timed out"), "")
    ELSE IF err # Nil
    THEN Response(req.ID, 500, Nil,
                  Error(ErrCodeRecipeExecution, ErrorString(err[1])), "")
    ELSE Response(req.ID, 200, data, Nil, "")

Classify(req, ctxErr, data, err) ==
    IF TimedOut(ctxErr)
    THEN Response(req.ID, 504, Nil,
                  Error(ErrCodeTimeout, "recipe execution timed out"), "")
    ELSE IF err # Nil
    THEN IF err[1].IsPanic
         THEN Response(req.ID, 500, Nil,
                       Error(ErrCodePanic, ErrorString(err[1])), "")
         ELSE Response(req.ID, 500, Nil,
                       Error(ErrCodeRecipeExecution, ErrorString(err[1])), "")
    ELSE Response(req.ID, 200, data, Nil, "")

\* A plausible slip: the response is left as safeExecute built it.
StampMissing(resp, req) == resp

\* executeRequest stamps the tenant on what safeExecute returned.
Stamp(resp, req) == [resp EXCEPT !.TenantID = req.TenantID]

\* resp.Duration = time.Since(start)
Timed(resp, d) == [resp EXCEPT !.Duration = d]

\* A plausible slip: the hook is called before the response is completed.
ObservedEarly(raw, req, d) == raw

\* What OnComplete is handed: the response with Duration and TenantID set.
Observed(raw, req, d) == Stamp(Timed(raw, d), req)

\* Ticks since start, which is taken right before the task context is made.
SinceStart(c, i) == taskTimeout[c][i] - timer[c][i]

\* A method call on a nil hook is a nil dereference: the panic is not
\* recovered and ends the process, every goroutine with it.
Crashed == PerTask("crashed")

\* OnStart, then the registry lookup of safeExecute: a missing recipe is
\* answered at once, otherwise the handler is called.
Lookup(c, i) ==
    LET req == batch[c][i]
        exists == req.Recipe \in DOMAIN registry
        resp == Stamp(Timed(NotFoundResponse(req), SinceStart(c, i)), req)
    IN
    /\ pc[c][i] = "lookup"
    /\ IF executionHook = "nil"
       THEN /\ pc' = Crashed
            /\ UNCHANGED << startCalls, mu, completeCalls, results, semaphore,
                            taskErr, timer, waited, handler, handlerCalls >>
       ELSE /\ startCalls' = [startCalls EXCEPT ![c][i] = @ + 1]
            /\ mu' = RUnlock(RLock(mu))
            /\ IF ~exists
               THEN /\ completeCalls' = [completeCalls EXCEPT ![c][i] =
                            Append(@, Observed(NotFoundResponse(req), req,
                                               SinceStart(c, i)))]
                    /\ results' = [results EXCEPT ![c] = WriteSlot(@, i, resp)]
                    /\ taskErr' = [taskErr EXCEPT ![c][i] = Cancelled(@)]
                    /\ timer' = [timer EXCEPT ![c][i] = 0]
                    /\ waited' = [waited EXCEPT ![c][i] = 0]
                    /\ semaphore' = AfterRelease(semaphore, maxConcurrency)
                    /\ pc' = [pc EXCEPT ![c][i] = "wgdone"]
                    /\ UNCHANGED << handler, handlerCalls >>
               ELSE /\ handler' = [handler EXCEPT ![c][i] = registry[req.Recipe]]
                    /\ handlerCalls' = [handlerCalls EXCEPT ![c][i] = @ + 1]
                    /\ pc' = [pc EXCEPT ![c][i] = "running"]
                    /\ UNCHANGED << completeCalls, results, semaphore, taskErr,
                                    timer, waited >>
    /\ UNCHANGED << orchVars, batch, batchCtx, callPc, batchErr, wg, panicCalls,
                    ended, expired, waitCancelled,
                    taskTimeout, taskCtx >>

\* A plausible slip: the handler is fetched from the registry again when it
\* is called.
InvokedFromRegistry(c, i) == registry[batch[c][i].Recipe]

\* The handler a task calls is the one it copied out of the registry.
Invoked(c, i) == handler[c][i]

\* A plausible slip: a handler call that ends is made again.
HandlerReturnRetried(c, i) ==
    /\ pc[c][i] = "running"
    /\ handlerCalls' = [handlerCalls EXCEPT ![c][i] = @ + 1]
    /\ UNCHANGED << orchVars, semaphore, batch, batchCtx, mu, callPc, batchErr,
                    results, wg, pc, taskErr, timer, waited, handler, hookVars,
                    ended, expired, waitCancelled, taskTimeout, taskCtx >>

\* The handler call ends; recover, classification, OnComplete, the write of
\* the result slot and the deferred cancel() and slot release follow
\* without a blocking point.  The deferred wg.Done() runs last, as the step WgDone.
HandlerReturn(c, i) ==
    /\ pc[c][i] = "running"
    /\ \E o \in OutcomesOf(Invoked(c, i), taskErr[c][i]) :
        LET req == batch[c][i]
            r == Recovered(o)
            resp == Stamp(Timed(Classify(req, taskErr[c][i], r.Data, r.Err),
                                SinceStart(c, i)), req)
        IN
        /\ ended' = [ended EXCEPT ![c][i] = Some(o)]
        /\ IF o.Recovered # Nil /\ panicHook = "nil"
           THEN /\ pc' = Crashed
                /\ UNCHANGED << panicCalls, completeCalls, results, taskErr,
                                timer, waited, semaphore >>
           ELSE /\ panicCalls' = [panicCalls EXCEPT ![c][i] =
                                     IF o.Recovered # Nil
                                     THEN Append(@, o.Recovered[1]) ELSE @]
                /\ completeCalls' = [completeCalls EXCEPT ![c][i] =
                        Append(@, Observed(Classify(req, taskErr[c][i],
                                                    r.Data, r.Err),
                                           req, SinceStart(c, i)))]
                /\ results' = [results EXCEPT ![c] = WriteSlot(@, i, resp)]
                /\ taskErr' = [taskErr EXCEPT ![c][i] = Cancelled(@)]
                /\ timer' = [timer EXCEPT ![c][i] = 0]
                /\ waited' = [waited EXCEPT ![c][i] = 0]
                /\ semaphore' = AfterRelease(semaphore, maxConcurrency)
                /\ pc' = [pc EXCEPT ![c][i] = "wgdone"]
    /\ UNCHANGED << orchVars, batch, batchCtx, mu, callPc, batchErr, wg, handler,
                    handlerCalls, startCalls, expired, waitCancelled,
                    taskTimeout, taskCtx >>

\* A plausible slip: the goroutine ends without wg.Done().
WgDoneForgotten(c, i) ==
    /\ pc[c][i] = "wgdone"
    /\ pc' = [pc EXCEPT ![c][i] = "done"]
    /\ UNCHANGED << orchVars, semaphore, batch, batchCtx, mu, callPc, batchErr,
                    results, wg, taskErr, timer, waited, handler, handlerCalls,
                    hookVars, ended, expired, waitCancelled,
                    taskTimeout, taskCtx >>

\* defer wg.Done()
WgDone(c, i) ==
    /\ pc[c][i] = "wgdone"
    /\ wg' = [wg EXCEPT ![c] = @ - 1]
    /\ pc' = [pc EXCEPT ![c][i] = "done"]
    /\ UNCHANGED << orchVars, semaphore, batch, batchCtx, mu, callPc, batchErr,
                    results, taskErr, timer, waited, handler, handlerCalls,
                    hookVars, ended, expired, waitCancelled,
                    taskTimeout, taskCtx >>

\* ---------------------------------------------------------------- context
HasLiveCtx(c, i) == pc[c][i] \in {"lookup", "running"}

\* A plausible slip: the task contexts are not derived from the caller's
\* context, so they never see it done.
CancelNotPropagated(c, kind) ==
    /\ c = 1
    /\ \E i \in Slots : pc[c][i] \in {"acquire", "lookup", "running"}
    /\ batchErr[c] = "none"
    /\ batchErr' = [batchErr EXCEPT ![c] = kind]
    /\ UNCHANGED << orchVars, semaphore, batch, batchCtx, mu, callPc, results, wg, pc,
                    taskErr, timer, waited, handler, handlerCalls, hookVars,
                    ended, expired, waitCancelled, taskTimeout, taskCtx >>

\* The caller's context is cancelled (kind "Canceled") or its own deadline
\* expires (kind "DeadlineExceeded"); every derived context that is not yet
\* done takes the same error.
Cancel(c, kind) ==
    /\ c = 1
    /\ \E i \in Slots : pc[c][i] \in {"acquire", "lookup", "running"}
    /\ batchErr[c] = "none"
    /\ batchErr' = [batchErr EXCEPT ![c] = kind]
    /\ taskErr' = [taskErr EXCEPT ![c] =
            [i \in Slots |->
                IF HasLiveCtx(c, i) /\ taskErr[c][i] = "none"
                THEN kind ELSE taskErr[c][i]]]
    /\ expired' = [expired EXCEPT ![c] =
            [i \in Slots |->
                IF /\ kind = "DeadlineExceeded"
                   /\ HasLiveCtx(c, i)
                   /\ expired[c][i] = "none"
                THEN pc[c][i] ELSE expired[c][i]]]
    /\ waitCancelled' = [waitCancelled EXCEPT ![c] =
            [i \in Slots |->
                waitCancelled[c][i]
                \/ (/\ pc[c][i] = "acquire"
                    /\ maxConcurrency > 0
                    /\ semaphore = maxConcurrency)]]
    /\ UNCHANGED << orchVars, semaphore, batch, batchCtx, mu, callPc, results, wg, pc,
                    timer, waited, handler, handlerCalls, hookVars, ended,
                    taskTimeout, taskCtx >>

\* A task blocked on the semaphore: the send cannot go through.
Blocked(c, i) ==
    pc[c][i] = "acquire" /\ ~CanAcquire(semaphore, maxConcurrency)

WaitCap(c, i) == EffectiveTimeout(recipeOptions, timeout, batch[c][i].Recipe)

\* One tick of time passes: the deadline of every task context comes one
\* tick closer, and a context that reaches its deadline without being done
\* becomes DeadlineExceeded.  A tick that changes nothing is left out.
Tick ==
    /\ \E t \in Tasks :
          \/ HasLiveCtx(t[1], t[2]) /\ timer[t[1]][t[2]] > 0
          \/ Blocked(t[1], t[2]) /\ waited[t[1]][t[2]] < WaitCap(t[1], t[2])
    /\ timer' = [c \in Callers |-> [i \in Slots |->
            IF timer[c][i] > 0 THEN timer[c][i] - 1 ELSE 0]]
    /\ taskErr' = [c \in Callers |-> [i \in Slots |->
            IF HasLiveCtx(c, i) /\ taskErr[c][i] = "none" /\ timer[c][i] = 1
            THEN "DeadlineExceeded" ELSE taskErr[c][i]]]
    /\ expired' = [c \in Callers |-> [i \in Slots |->
            IF HasLiveCtx(c, i) /\ timer[c][i] = 1 /\ expired[c][i] = "none"
            THEN pc[c][i] ELSE expired[c][i]]]
    /\ waited' = [c \in Callers |-> [i \in Slots |->
            IF i <= Len(batch[c]) /\ Blocked(c, i)
               /\ waited[c][i] < WaitCap(c, i)
            THEN waited[c][i] + 1 ELSE waited[c][i]]]
    /\ UNCHANGED << orchVars, semaphore, batch, batchCtx, mu, callPc, batchErr, results, wg,
                    pc, handler, handlerCalls, hookVars, ended, waitCancelled,
                    taskTimeout, taskCtx >>

\* ---------------------------------------------------------------- specification
\* The steps of the calls and of time.
NextTasks ==
    \/ \E c \in Callers : ExecuteBatch(c)
    \/ \E c \in Callers : Return(c)
    \/ \E c \in Callers, i \in Slots : Acquire(c, i)
    \/ \E c \in Callers, i \in Slots : Lookup(c, i)
    \/ \E c \in Callers, i \in Slots : HandlerReturn(c, i)
    \/ \E c \in Callers, i \in Slots : WgDone(c, i)
    \/ Tick

Next ==
    \/ NextTasks
    \/ \E c \in Callers, k \in {"Canceled", "DeadlineExceeded"} : Cancel(c, k)

Spec == Init /\ [][Next]_vars

\* The calls of Init on an Orchestrator whose recipe r1 is registered with
\* the handler that watches its context.
InitObs ==
    InitOrch({ b \in [Callers -> BatchesUpTo(MaxTasks)] :
                 /\ Len(b[1]) + Len(b[2]) <= MaxTasks
                 /\ Len(b[2]) <= Len(b[1])
                 /\ \A i \in 1..Len(b[2]) : b[2][i] = SubRequest("1", "a", "r1") },
             "r1" :> "h2")

SpecObs == InitObs /\ [][Next]_vars

\* One call with a context that is never done, on an Orchestrator without
\* limits, while recipes are registered and overwritten.  The first request
\* is for r1 or r2, the further ones for r1.
InitReg ==
    /\ InitWith({ b \in [Callers -> BatchesUpTo(MaxRegTasks)] :
                    /\ Len(b[2]) = 0
                    /\ \A i \in 1..Len(b[1]) :
                          b[1][i] \in { SubRequest("1", "a", "r1"),
                                        SubRequest("1", "b", "r2") }
                    /\ \A i \in 2..Len(b[1]) :
                          b[1][i] = SubRequest("1", "a", "r1") })
    /\ maxConcurrency = 0
    /\ maxBatchSize = 0

NextReg ==
    \/ NextTasks
    \/ \E a \in RegisterArgs : RegisterRecipe(a[1], a[2], a[3])
    \/ \E a \in StrictArgs : RegisterRecipeStrict(a[1], a[2], a[3])

SpecReg == InitReg /\ [][NextReg]_vars

\* A caller builds a context, starting from context.Background(): the
\* functions of context.go and context.WithValue under foreign keys are
\* applied in any order, up to MaxCtxLen times.
ApplyTo(ctx) ==
    /\ Len(batchCtx[1]) < MaxCtxLen
    /\ batchCtx' = [batchCtx EXCEPT ![1] = ctx]
    /\ UNCHANGED << orchVars, semaphore, batch, callPc, batchErr, results, wg,
                    pc, taskErr, timer, waited, handler, handlerCalls, hookVars,
                    ended, expired, waitCancelled, taskTimeout, taskCtx, mu >>

ApplyWithTenantID(v) == ApplyTo(WithTenantID(batchCtx[1], v))
ApplyWithRequestID(v) == ApplyTo(WithRequestID(batchCtx[1], v))
ApplyWithRecipeName(v) == ApplyTo(WithRecipeName(batchCtx[1], v))
ApplyWithValue(k, v) == ApplyTo(WithValue(batchCtx[1], k, v))

InitCtx == InitWith({ b \in [Callers -> BatchesUpTo(0)] : TRUE })

NextCtx ==
    \/ \E v \in CtxValues : ApplyWithTenantID(v)
    \/ \E v \in CtxValues : ApplyWithRequestID(v)
    \/ \E v \in CtxValues : ApplyWithRecipeName(v)
    \/ \E k \in ForeignKeys, v \in CtxValues : ApplyWithValue(k, v)

SpecCtx == InitCtx /\ [][NextCtx]_vars

\* Two calls, for r1 and for the unregistered r2, on an Orchestrator with
\* a concurrency limit and no batch limit.  Every goroutine that can take a step eventually takes it:
\* the scheduler runs every runnable goroutine, a send on the semaphore
\* goes through once a slot stays free, every handler call returns or
\* panics, and wg.Wait() returns once the counter is zero.  Nothing is
\* assumed about time; the callers' contexts are never done.
InitLive ==
    /\ Init
    /\ maxConcurrency >= 1
    /\ maxBatchSize = 0
    /\ \A i \in 1..Len(batch[1]) :
          batch[1][i] \in { SubRequest("1", "a", "r1"),
                            SubRequest("1", "b", "r2") }

Fairness ==
    /\ \A c \in Callers : WF_vars(Return(c))
    /\ \A c \in Callers, i \in Slots :
          /\ WF_vars(Acquire(c, i))
          /\ WF_vars(Lookup(c, i))
          /\ WF_vars(HandlerReturn(c, i))
          /\ WF_vars(WgDone(c, i))

SpecLive == InitLive /\ [][NextTasks]_vars /\ Fairness

\* One caller constructs the Orchestrator with up to MaxOpts options,
\* registers r1 and submits up to MaxTasks requests for r1; the handlers
\* return before any time passes.
NewRegisterArgs == { << "r1", "h1", Nil >> }

InitNew ==
    /\ timeout = 0
    /\ maxConcurrency = 0
    /\ maxBatchSize = 0
    /\ executionHook = "nil"
    /\ panicHook = "nil"
    /\ newResult = RegOutcome("none", "")
    /\ registry = EmptyMap
    /\ InitCalls({ b \in [Callers -> BatchesUpTo(MaxTasks)] :
                     /\ Len(b[2]) = 0
                     /\ \A i \in 1..Len(b[1]) :
                           b[1][i] = SubRequest("1", "a", "r1") })

NextNew ==
    \/ \E opts \in OptionLists : New(opts)
    \/ \E a \in NewRegisterArgs : RegisterRecipe(a[1], a[2], a[3])
    \/ \E c \in Callers : ExecuteBatch(c)
    \/ \E c \in Callers : Return(c)
    \/ \E c \in Callers, i \in Slots : Acquire(c, i)
    \/ \E c \in Callers, i \in Slots : Lookup(c, i)
    \/ \E c \in Callers, i \in Slots : HandlerReturn(c, i)
    \/ \E c \in Callers, i \in Slots : WgDone(c, i)

SpecNew == InitNew /\ [][NextNew]_vars

\* The contexts the first caller passes: context.Background(), or a context
\* that already carries a tenant, or a tenant, a request id and a recipe
\* name, of its own.
CallerContexts ==
    { WithTenantID(Background, "b"),
      WithRecipeName(WithRequestID(WithTenantID(Background, "b"), "b"), "b") }

\* The caller derives the context of its call before it calls ExecuteBatch.
PrepareContext(ctx) ==
    /\ callPc[1] = "ready"
    /\ batchCtx[1] = Background
    /\ batchCtx' = [batchCtx EXCEPT ![1] = ctx]
    /\ UNCHANGED << orchVars, semaphore, batch, callPc, batchErr, results, wg,
                    pc, taskErr, timer, waited, handler, handlerCalls, hookVars,
                    ended, expired, waitCancelled, taskTimeout, taskCtx, mu >>

\* Calls of complete requests on an Orchestrator without limits, so that
\* the tasks of a call hold their contexts at the same time.
InitFrame ==
    /\ Init
    /\ maxConcurrency = 0
    /\ maxBatchSize = 0
    /\ \A i \in 1..Len(batch[1]) :
          batch[1][i] \in { SubRequest("1", "a", "r1"),
                            SubRequest("1", "b", "r2") }

NextFrame ==
    \/ Next
    \/ \E ctx \in CallerContexts : PrepareContext(ctx)

SpecFrame == InitFrame /\ [][NextFrame]_vars

\* ---------------------------------------------------------------- claims
Written(c, i) == pc[c][i] \in {"wgdone", "done"}

Is(r, status, code) ==
    r.Status = status /\ r.Error # Nil /\ r.Error[1].Code = code

IsOK(r) == r.Status = 200 /\ r.Error = Nil

NoEmptyField(req) == req.ID # "" /\ req.TenantID # "" /\ req.Recipe # ""

\* C1: whenever a call of ExecuteBatch has returned, its result array is as
\* long as the batch and the response at every index carries the id of the
\* request at that index (duplicate and empty ids included).
C1_PositionalResults ==
    \A c \in Callers :
        callPc[c] = "returned" =>
            /\ Len(results[c]) = Len(batch[c])
            /\ \A i \in 1..Len(batch[c]) : results[c][i].ID = batch[c][i].ID

\* A returned call of two requests with the same id and different tenants:
\* the first slot holds the 404 of the first request, the second the 200 of
\* the second.
C1_Witness ==
    /\ callPc[1] = "returned"
    /\ Len(batch[1]) = 2
    /\ batch[1][1].ID = batch[1][2].ID
    /\ batch[1][1].TenantID # batch[1][2].TenantID
    /\ results[1][1].Status = 404
    /\ results[1][1].TenantID = batch[1][1].TenantID
    /\ results[1][2].Status = 200
    /\ results[1][2].TenantID = batch[1][2].TenantID

\* C2: a task whose handler returned a value and no error before the deadline
\* of its context has status 200 and no error, whatever the other tasks of
\* the same or of another call did and whether or not the call's context was
\* cancelled.
C2_PartialSuccess ==
    \A t \in Tasks :
        LET c == t[1]
            i == t[2]
        IN  ( /\ ended[c][i] # Nil
              /\ ended[c][i][1].Err = Nil
              /\ ended[c][i][1].Recovered = Nil
              /\ expired[c][i] = "none"
              /\ taskErr[c][i] # "DeadlineExceeded" )
            => IsOK(results[c][i])

\* A returned call in which one handler panicked and the call's context was
\* cancelled, while the sibling's handler returned normally and got 200.
C2_Witness ==
    /\ callPc[1] = "returned"
    /\ Len(batch[1]) = 2
    /\ batchErr[1] = "Canceled"
    /\ ended[1][1] # Nil
    /\ ended[1][1][1].Recovered # Nil
    /\ results[1][1].Status = 500
    /\ ended[1][2] # Nil
    /\ ended[1][2][1].Err = Nil
    /\ ended[1][2][1].Recovered = Nil
    /\ expired[1][2] = "none"
    /\ IsOK(results[1][2])

\* C3: with maxConcurrency = K > 0, at most K handlers are mid-execution on
\* the Orchestrator, over the tasks of all calls.
C3_MaxConcurrency ==
    maxConcurrency > 0 =>
        Cardinality({ t \in Tasks : pc[t[1]][t[2]] = "running" })
            <= maxConcurrency

\* All K slots are taken by running handlers, one of them of the second call,
\* while a task of the first call is blocked on the semaphore.
C3_Witness ==
    /\ maxConcurrency > 0
    /\ Cardinality({ t \in Tasks : pc[t[1]][t[2]] = "running" }) = maxConcurrency
    /\ pc[2][1] = "running"
    /\ \E i \in 1..Len(batch[1]) : pc[1][i] = "acquire"

\* C4: a task that was waiting for a slot, all slots taken, when the call's
\* context was cancelled never has its handler invoked and resolves to
\* 504 / TIMEOUT (stated for the requests that would otherwise be executed).
C4_CancelledWhileWaiting ==
    \A t \in Tasks :
        ( /\ waitCancelled[t[1]][t[2]]
          /\ NoEmptyField(batch[t[1]][t[2]])
          /\ batch[t[1]][t[2]].Recipe \in DOMAIN registry ) =>
            /\ handlerCalls[t[1]][t[2]] = 0
            /\ Written(t[1], t[2]) => Is(results[t[1]][t[2]], 504, "TIMEOUT")

Panicked(c, i) == ended[c][i] # Nil /\ ended[c][i][1].Recovered # Nil

\* C5 as stated: a handler that panicked always yields 500 / PANIC with the
\* fixed message, and the panic hook got the panic value exactly once.
C5_PanicAlways500 ==
    \A t \in Tasks :
        Panicked(t[1], t[2]) =>
            /\ Is(results[t[1]][t[2]], 500, "PANIC")
            /\ results[t[1]][t[2]].Error[1].Message =
                   "internal error during recipe execution"
            /\ panicCalls[t[1]][t[2]] = << ended[t[1]][t[2]][1].Recovered[1] >>

\* C5 (amended): a handler that panicked yields 500 / PANIC with the fixed
\* message "internal error during recipe execution", unless the deadline of
\* its context was exceeded when the call ended, when it yields 504 /
\* TIMEOUT; either way the response carries no data and one of the two fixed
\* messages, never the panic value, and the panic hook was invoked exactly
\* once, with the panic value.
C5_PanicIsolated ==
    \A t \in Tasks :
        LET c == t[1]
            i == t[2]
            r == results[c][i]
        IN  Panicked(c, i) =>
            /\ IF taskErr[c][i] = "DeadlineExceeded"
               THEN /\ Is(r, 504, "TIMEOUT")
                    /\ r.Error[1].Message = "recipe execution timed out"
               ELSE /\ Is(r, 500, "PANIC")
                    /\ r.Error[1].Message =
                           "internal error during recipe execution"
            /\ r.Data = Nil
            /\ r.Error[1].Message \notin PanicValues
            /\ panicCalls[c][i] = << ended[c][i][1].Recovered[1] >>

\* Two handlers of one call panicked, the first within its deadline (500),
\* the second after it (504); the hook saw each panic once.
C5_Witness ==
    /\ Len(batch[1]) = 2
    /\ Panicked(1, 1) /\ Panicked(1, 2)
    /\ Is(results[1][1], 500, "PANIC")
    /\ Is(results[1][2], 504, "TIMEOUT")
    /\ panicCalls[1][1] = << "boom" >>
    /\ panicCalls[1][2] = << "boom" >>

Unregistered(c, i) ==
    NoEmptyField(batch[c][i]) /\ batch[c][i].Recipe \notin DOMAIN registry

\* C6 as stated: a valid request for an unregistered recipe yields 404 /
\* RECIPE_NOT_FOUND, no handler is invoked and OnStart is never invoked.
C6_NotFoundNoStartHook ==
    \A t \in Tasks :
        Unregistered(t[1], t[2]) =>
            /\ handlerCalls[t[1]][t[2]] = 0
            /\ startCalls[t[1]][t[2]] = 0
            /\ Written(t[1], t[2]) =>
                   Is(results[t[1]][t[2]], 404, "RECIPE_NOT_FOUND")

\* C6 (amended): a valid request for an unregistered recipe yields 404 /
\* RECIPE_NOT_FOUND and no handler is invoked for it; OnStart and OnComplete
\* are each invoked exactly once for it, OnComplete with the 404 response.
C6_NotFound ==
    \A t \in Tasks :
        LET c == t[1]
            i == t[2]
        IN  Unregistered(c, i) =>
            /\ handlerCalls[c][i] = 0
            /\ panicCalls[c][i] = << >>
            /\ Written(c, i) =>
                /\ Is(results[c][i], 404, "RECIPE_NOT_FOUND")
                /\ startCalls[c][i] = 1
                /\ completeCalls[c][i] = << results[c][i] >>

\* A request for the unregistered recipe r2 was answered 404 after OnStart,
\* next to a sibling whose handler ran.
C6_Witness ==
    /\ callPc[1] = "returned"
    /\ Len(batch[1]) = 2
    /\ Unregistered(1, 2)
    /\ Is(results[1][2], 404, "RECIPE_NOT_FOUND")
    /\ startCalls[1][2] = 1
    /\ handlerCalls[1][2] = 0
    /\ handlerCalls[1][1] = 1

\* C7: a request with an empty id, tenant or recipe yields 400 /
\* INVALID_REQUEST; no handler and no hook is ever invoked for it, also when
\* its recipe is registered; a sibling without an empty field is never
\* answered 400.
C7_InvalidRequest ==
    \A t \in Tasks :
        LET c == t[1]
            i == t[2]
        IN  IF NoEmptyField(batch[c][i])
            THEN i <= Len(results[c]) => results[c][i].Status # 400
            ELSE /\ handlerCalls[c][i] = 0
                 /\ startCalls[c][i] = 0
                 /\ completeCalls[c][i] = << >>
                 /\ panicCalls[c][i] = << >>
                 /\ Written(c, i) =>
                        Is(results[c][i], 400, "INVALID_REQUEST")

\* A request with an empty tenant and a registered recipe was answered 400
\* without any call, and its valid sibling was executed and answered 200.
C7_Witness ==
    /\ callPc[1] = "returned"
    /\ Len(batch[1]) = 2
    /\ batch[1][1].TenantID = ""
    /\ batch[1][1].Recipe \in DOMAIN registry
    /\ Is(results[1][1], 400, "INVALID_REQUEST")
    /\ handlerCalls[1][1] = 0
    /\ handlerCalls[1][2] = 1
    /\ IsOK(results[1][2])

Oversize(c) == maxBatchSize > 0 /\ Len(batch[c]) > maxBatchSize

\* C8: a call whose batch is longer than a positive maxBatchSize N returns
\* len(B) responses, each 413 / BATCH_TOO_LARGE with the message
\* "batch size <len(B)> exceeds limit of <N>"; none of its tasks is ever
\* spawned, and no handler or hook is invoked for it.
C8_BatchTooLarge ==
    \A c \in Callers :
        Oversize(c) =>
            /\ \A i \in 1..Len(batch[c]) :
                /\ pc[c][i] = "idle"
                /\ handlerCalls[c][i] = 0
                /\ startCalls[c][i] = 0
                /\ completeCalls[c][i] = << >>
                /\ panicCalls[c][i] = << >>
            /\ wg[c] = 0
            /\ callPc[c] \in {"ready", "returned"}
            /\ callPc[c] = "returned" =>
                /\ Len(results[c]) = Len(batch[c])
                /\ \A i \in 1..Len(batch[c]) :
                    /\ Is(results[c][i], 413, "BATCH_TOO_LARGE")
                    /\ results[c][i].Error[1].Message =
                           "batch size " \o Itoa(Len(batch[c]))
                               \o " exceeds limit of " \o Itoa(maxBatchSize)

\* A call of two requests under a limit of one has returned two 413s and no
\* slot is taken.
C8_Witness ==
    /\ maxBatchSize = 1
    /\ maxConcurrency = 1
    /\ Len(batch[1]) = 2
    /\ callPc[1] = "returned"
    /\ results[1][1].Status = 413
    /\ results[1][2].Status = 413
    /\ semaphore = 0

\* C9: when a call has returned, every task it spawned is past its
\* wg.Done(): its slot of the results holds the response passed to the
\* completion path, and the call's tasks hold no slot of the semaphore.
C9_JoinBarrier ==
    /\ \A c \in Callers :
        (callPc[c] = "returned" /\ ~Oversize(c)) =>
            \A i \in 1..Len(batch[c]) :
                /\ pc[c][i] = "done"
                /\ results[c][i].Status # 0
    /\ (\A c \in Callers : callPc[c] \in {"returned", "absent", "ready"})
           => semaphore = 0

\* A call has returned after its task ran a handler to the end, while a
\* task of the other call is still running a handler and holds the one slot.
C9_Witness ==
    /\ maxConcurrency = 1
    /\ callPc[1] = "returned"
    /\ Len(batch[1]) = 1
    /\ handlerCalls[1][1] = 1
    /\ pc[1][1] = "done"
    /\ pc[2][1] = "running"
    /\ semaphore = 1

\* C10: a task whose handler was still running when the deadline of the
\* task's context passed yields 504 / TIMEOUT, whatever the handler returns.
C10_LateHandlerTimesOut ==
    \A t \in Tasks :
        (expired[t[1]][t[2]] = "running" /\ ended[t[1]][t[2]] # Nil) =>
            Is(results[t[1]][t[2]], 504, "TIMEOUT")


Ended(c, i) == ended[c][i] # Nil

EndedNormally(c, i) ==
    Ended(c, i) /\ ended[c][i][1].Err = Nil /\ ended[c][i][1].Recovered = Nil

\* C11: the timeout a task resolves is the override stored for its recipe
\* when that override is set and positive, and the default otherwise; a
\* handler that returns normally after the default has elapsed and before
\* the override has is answered 200.
C11_EffectiveTimeout ==
    [][\A t \in Tasks :
          LET c == t[1]
              i == t[2]
              name == batch[c][i].Recipe
          IN  /\ (pc[c][i] = "acquire" /\ pc'[c][i] = "lookup") =>
                    taskTimeout'[c][i] =
                        IF name \in DOMAIN recipeOptions
                           /\ recipeOptions[name] > 0
                        THEN recipeOptions[name] ELSE timeout
              /\ ( /\ pc[c][i] = "running" /\ pc'[c][i] = "wgdone"
                   /\ EndedNormally(c, i)'
                   /\ taskTimeout[c][i] > timeout
                   /\ timer[c][i] > 0 ) =>
                    /\ IsOK(results'[c][i])
                    /\ results'[c][i].Duration < taskTimeout[c][i]
    ]_vars

\* A handler ran for as long as the default timeout under an override of
\* two ticks and was answered 200.
C11_Witness ==
    /\ timeout = 1
    /\ taskTimeout[1][1] = 2
    /\ EndedNormally(1, 1)
    /\ results[1][1].Duration = 1
    /\ IsOK(results[1][1])

\* C12: a task that has waited for a slot for as long as its timeout (the
\* default: no override is stored) never has its handler invoked.
C12_DeadlineCoversWait ==
    \A t \in Tasks :
        ( /\ NoEmptyField(batch[t[1]][t[2]])
          /\ recipeOptions = EmptyMap
          /\ waited[t[1]][t[2]] >= timeout ) =>
            handlerCalls[t[1]][t[2]] = 0

\* C13: when the context of a call is done (cancelled or expired) by the
\* time a handler that watches its context returns, the response of that
\* task is not 200.
C13_CancellationPropagates ==
    [][\A t \in Tasks :
          ( /\ pc[t[1]][t[2]] = "running"
            /\ pc'[t[1]][t[2]] = "wgdone"
            /\ handler[t[1]][t[2]] = "h2"
            /\ batchErr[t[1]] # "none" ) =>
                results'[t[1]][t[2]].Status # 200
    ]_vars

\* The call's context was cancelled before any deadline passed; the handler
\* returned the context's error and the task was answered 500 with it.
C13_Witness ==
    /\ batchErr[1] = "Canceled"
    /\ handler[1][1] = "h2"
    /\ Ended(1, 1)
    /\ expired[1][1] = "none"
    /\ Is(results[1][1], 500, "RECIPE_EXECUTION")
    /\ results[1][1].Error[1].Message = "context canceled"

\* C14: a RegisterRecipe call with a name and a handler leaves that handler
\* in the registry under that name, whatever was there before, and a task
\* whose lookup comes afterwards takes the handler the registry holds then.
C14_LastWriterWins ==
    [][/\ \A a \in RegisterArgs :
            ( /\ regs' # regs
              /\ a[1] # "" /\ a[2] # "nil"
              /\ RegisterRecipe(a[1], a[2], a[3]) ) =>
                /\ a[1] \in DOMAIN registry'
                /\ registry'[a[1]] = a[2]
                /\ \A n \in DOMAIN registry \ {a[1]} :
                      n \in DOMAIN registry' /\ registry'[n] = registry[n]
       /\ \A t \in Tasks :
            (pc[t[1]][t[2]] = "lookup" /\ pc'[t[1]][t[2]] = "running") =>
                handler'[t[1]][t[2]] = registry[batch[t[1]][t[2]].Recipe]
    ]_vars

\* r1, registered with h1 at first, was registered again twice, at last
\* with h2; the task looked r1 up afterwards and ran h2.
C14_Witness ==
    /\ regs = 2
    /\ regResult.Kind = "ok"
    /\ registry["r1"] = "h2"
    /\ DOMAIN registry = {"r1"}
    /\ Len(batch[1]) = 1
    /\ batch[1][1].Recipe = "r1"
    /\ handler[1][1] = "h2"
    /\ Ended(1, 1)
    /\ results[1][1].Data = Some("v2")

Contains(str, sub) ==
    \E k \in 1..(Len(str) - Len(sub) + 1) :
        SubSeq(str, k, k + Len(sub) - 1) = sub

\* C15: a RegisterRecipeStrict call with a name and a handler stores them
\* (and a given option) when the name is not registered, and otherwise
\* returns an "already registered" error and leaves the registry and the
\* option map as they were.
C15_StrictRejectsDuplicates ==
    [][\A a \in RegisterArgs :
          ( /\ regs' # regs
            /\ a[1] # "" /\ a[2] # "nil"
            /\ RegisterRecipeStrict(a[1], a[2], a[3]) ) =>
              IF a[1] \in DOMAIN registry
              THEN /\ regResult'.Kind = "error"
                   /\ Contains(regResult'.Text, "already registered")
                   /\ registry' = registry
                   /\ recipeOptions' = recipeOptions
              ELSE /\ regResult'.Kind = "ok"
                   /\ a[1] \in DOMAIN registry'
                   /\ registry'[a[1]] = a[2]
                   /\ \A n \in DOMAIN registry :
                         n \in DOMAIN registry' /\ registry'[n] = registry[n]
    ]_vars

\* r2 was registered, the next call was a strict one and was turned down,
\* and the task for r1 ran the handler r1 had from the start.
C15_Witness ==
    /\ regs = 2
    /\ regResult.Kind = "error"
    /\ DOMAIN registry = {"r1", "r2"}
    /\ registry["r1"] = "h1"
    /\ registry["r2"] = "h2"
    /\ Len(batch[1]) = 1
    /\ batch[1][1].Recipe = "r1"
    /\ handler[1][1] = "h1"
    /\ Ended(1, 1)

\* C16: a registration call, overwriting or strict, with the empty name
\* panics with "recipe name cannot be empty", one with a name and the nil
\* handler panics with a message that contains "handler cannot be nil";
\* either leaves the registry and the option map as they were.
C16_RegistrationPanics ==
    [][\A a \in RegisterArgs :
          ( /\ regs' # regs
            /\ a[1] = "" \/ a[2] = "nil"
            /\ \/ RegisterRecipe(a[1], a[2], a[3])
               \/ RegisterRecipeStrict(a[1], a[2], a[3]) ) =>
              /\ regResult'.Kind = "panic"
              /\ IF a[1] = ""
                 THEN regResult'.Text = "recipe name cannot be empty"
                 ELSE Contains(regResult'.Text, "handler cannot be nil")
              /\ registry' = registry
              /\ recipeOptions' = recipeOptions
    ]_vars

\* After a registration that stored an option, a call with the nil handler
\* panicked and nothing changed.
C16_Witness ==
    /\ regs = 2
    /\ regResult = RegOutcome("panic", "recipe handler cannot be nil")
    /\ DOMAIN registry = {"r1", "r2"}
    /\ DOMAIN recipeOptions = {"r2"}

\* C17: a registration changes nothing of a task that has looked up its
\* handler: the task goes on with the handler it took and the value returned
\* is one that handler returns; a lookup takes the handler the registry holds at
\* that moment, and answers 404 only when the name is absent then.
C17_RegistrationDuringBatch ==
    [][\A t \in Tasks :
          LET c == t[1]
              i == t[2]
              name == batch[c][i].Recipe
          IN  /\ (regs' # regs /\ pc[c][i] = "running") =>
                    /\ pc'[c][i] = "running"
                    /\ handler'[c][i] = handler[c][i]
                    /\ timer'[c][i] = timer[c][i]
              /\ (pc[c][i] = "running" /\ pc'[c][i] = "wgdone"
                     /\ EndedNormally(c, i)') =>
                    ended'[c][i][1].Data =
                        IF handler[c][i] = "h2" THEN Some("v2") ELSE Some("ok")
              /\ (pc[c][i] = "lookup" /\ pc'[c][i] # "lookup") =>
                    IF name \in DOMAIN registry
                    THEN /\ pc'[c][i] = "running"
                         /\ handler'[c][i] = registry[name]
                    ELSE /\ pc'[c][i] = "wgdone"
                         /\ Is(results'[c][i], 404, "RECIPE_NOT_FOUND")
    ]_vars

\* The one registration made came after the task had taken h1: the registry
\* holds h2 for r1 while the task is running h1.
C17_Witness ==
    /\ regs = 1
    /\ registry["r1"] = "h2"
    /\ Len(batch[1]) = 1
    /\ batch[1][1].Recipe = "r1"
    /\ pc[1][1] = "running"
    /\ handler[1][1] = "h1"

\* C18: in every response of a returned call the error is present exactly
\* when the status is outside 200..299, and data is present only with
\* status 200.
C18_ErrorIffNotSuccess ==
    \A c \in Callers :
        callPc[c] = "returned" =>
            \A i \in 1..Len(results[c]) :
                LET r == results[c][i]
                IN  /\ (r.Error # Nil) <=> ~(r.Status \in 200..299)
                    /\ r.Data # Nil => r.Status = 200

\* A returned call: one handler returned a value together with an error and
\* was answered 500 without data, its sibling was answered 200 with data.
C18_Witness ==
    /\ callPc[1] = "returned"
    /\ Len(batch[1]) = 2
    /\ Ended(1, 1)
    /\ ended[1][1][1].Data # Nil
    /\ ended[1][1][1].Err # Nil
    /\ Is(results[1][1], 500, "RECIPE_EXECUTION")
    /\ results[1][1].Data = Nil
    /\ IsOK(results[1][2])
    /\ results[1][2].Data = Some("ok")

HoldsSlot(c, i) == pc[c][i] \in {"lookup", "running"}

\* C19: the semaphore holds one element for every task between its
\* acquisition and its exit and none besides: the count lies in 0..K and is
\* 0 whenever no task is in flight.
C19_AcquireReleasePaired ==
    /\ semaphore \in 0..maxConcurrency
    /\ semaphore =
           IF maxConcurrency > 0
           THEN Cardinality({ t \in Tasks : HoldsSlot(t[1], t[2]) })
           ELSE 0
    /\ (\A t \in Tasks : pc[t[1]][t[2]] \in {"idle", "wgdone", "done"})
           => semaphore = 0

\* Under K = 1 a call has returned whose tasks left through the validation
\* failure and through a handler panic, and the slot is free again.
C19_Witness ==
    /\ maxConcurrency = 1
    /\ callPc[1] = "returned"
    /\ Len(batch[1]) = 2
    /\ results[1][1].Status = 400
    /\ Panicked(1, 2)
    /\ semaphore = 0

\* C20: for a request without an empty field in a batch within the limit,
\* OnStart is invoked once, before the handler is called, and OnComplete
\* once, when the task is finished, with exactly the response that the
\* result slot holds (id, status, error, tenant and duration).
C20_HooksOncePerRequest ==
    \A t \in Tasks :
        LET c == t[1]
            i == t[2]
        IN  (NoEmptyField(batch[c][i]) /\ ~Oversize(c)) =>
            /\ pc[c][i] \in {"idle", "acquire", "lookup"} =>
                /\ startCalls[c][i] = 0
                /\ handlerCalls[c][i] = 0
                /\ completeCalls[c][i] = << >>
            /\ pc[c][i] = "running" =>
                /\ startCalls[c][i] = 1
                /\ handlerCalls[c][i] = 1
                /\ completeCalls[c][i] = << >>
            /\ Written(c, i) =>
                /\ startCalls[c][i] = 1
                /\ handlerCalls[c][i] <= 1
                /\ completeCalls[c][i] = << results[c][i] >>

\* A returned call of two requests, one answered 200 after a tick and one
\* answered 404: each had one OnStart and one OnComplete with its response.
C20_Witness ==
    /\ callPc[1] = "returned"
    /\ Len(batch[1]) = 2
    /\ IsOK(results[1][1])
    /\ results[1][1].Duration = 1
    /\ results[1][2].Status = 404
    /\ startCalls[1][1] = 1 /\ startCalls[1][2] = 1
    /\ completeCalls[1][1] = << results[1][1] >>
    /\ completeCalls[1][2] = << results[1][2] >>

\* C21: while a task has its context (from its creation to the end of the
\* task: OnStart, the handler, OnPanic and OnComplete all get this context),
\* the context yields the tenant id, request id and recipe name of the
\* task's own SubRequest, whatever the other tasks of the same and of other
\* calls are doing.
C21_TaskContextIsOwn ==
    \A t \in Tasks :
        LET c == t[1]
            i == t[2]
            req == batch[c][i]
        IN  HasLiveCtx(c, i) =>
            /\ TenantID(taskCtx[c][i]) = << req.TenantID, TRUE >>
            /\ RequestID(taskCtx[c][i]) = << req.ID, TRUE >>
            /\ RecipeName(taskCtx[c][i]) = << req.Recipe, TRUE >>

\* Two tasks of two calls with the same request id and different tenants and
\* recipes hold their contexts at the same time, one in its handler.
C21_Witness ==
    /\ Len(batch[1]) >= 1 /\ Len(batch[2]) >= 1
    /\ pc[1][1] = "lookup" /\ pc[2][1] = "running"
    /\ batch[1][1].ID = batch[2][1].ID
    /\ TenantID(taskCtx[1][1]) = << "b", TRUE >>
    /\ TenantID(taskCtx[2][1]) = << "a", TRUE >>
    /\ RecipeName(taskCtx[1][1]) = << "r2", TRUE >>
    /\ RecipeName(taskCtx[2][1]) = << "r1", TRUE >>

\* Every accessor's result on a context.
Accessors(ctx) == << TenantID(ctx), RequestID(ctx), RecipeName(ctx) >>

\* C27: on context.Background() every accessor returns ("", false); a call
\* of WithTenantID, WithRequestID or WithRecipeName with v, on any context
\* built so far, makes its own accessor return (v, true), the latest value
\* when one was set before, and leaves the results of the two other
\* accessors as they were on the parent.
C27_AccessorsRoundTrip ==
    [][ /\ batchCtx[1] = Background =>
            Accessors(batchCtx[1]) = << <<"", FALSE>>, <<"", FALSE>>, <<"", FALSE>> >>
        /\ \A v \in CtxValues :
            /\ ApplyWithTenantID(v) =>
                Accessors(batchCtx'[1]) =
                    << <<v, TRUE>>, RequestID(batchCtx[1]), RecipeName(batchCtx[1]) >>
            /\ ApplyWithRequestID(v) =>
                Accessors(batchCtx'[1]) =
                    << TenantID(batchCtx[1]), <<v, TRUE>>, RecipeName(batchCtx[1]) >>
            /\ ApplyWithRecipeName(v) =>
                Accessors(batchCtx'[1]) =
                    << TenantID(batchCtx[1]), RequestID(batchCtx[1]), <<v, TRUE>> >>
      ]_vars

\* All three values set, the recipe name twice and last of all: the
\* accessors return the tenant, the request id and the later recipe name.
C27_Witness ==
    /\ Len(batchCtx[1]) = 4
    /\ batchCtx[1][3] = << recipeNameKey, "a" >>
    /\ batchCtx[1][4] = << recipeNameKey, "b" >>
    /\ Accessors(batchCtx[1]) = << <<"a", TRUE>>, <<"b", TRUE>>, <<"b", TRUE>> >>

\* C28: a value stored with context.WithValue under a foreign key (the
\* strings "tenant_id" and "request_id", the plain int 0) changes the result
\* of no accessor, so an accessor whose own With function was never applied
\* keeps returning ("", false).
C28_ForeignKeysIgnored ==
    [][ \A k \in ForeignKeys, v \in CtxValues :
            ApplyWithValue(k, v) =>
                Accessors(batchCtx'[1]) = Accessors(batchCtx[1]) ]_vars

\* A context that only carries values under the foreign keys "tenant_id"
\* and int 0, and a request id: TenantID and RecipeName find nothing.
C28_Witness ==
    /\ Len(batchCtx[1]) = 3
    /\ batchCtx[1][1] = << Key("string", "tenant_id"), "a" >>
    /\ batchCtx[1][2] = << Key("int", "0"), "a" >>
    /\ batchCtx[1][3] = << requestIDKey, "b" >>
    /\ Accessors(batchCtx[1]) = << <<"", FALSE>>, <<"b", TRUE>>, <<"", FALSE>> >>

\* C22: a handler that returned an error without panicking, before the
\* deadline of its context, yields 500 / RECIPE_EXECUTION with the handler's
\* error text as message and no data, and the panic hook is not invoked.
C22_HandlerError ==
    \A t \in Tasks :
        LET c == t[1]
            i == t[2]
        IN  ( /\ ended[c][i] # Nil
              /\ ended[c][i][1].Err # Nil
              /\ ended[c][i][1].Recovered = Nil
              /\ expired[c][i] = "none"
              /\ taskErr[c][i] # "DeadlineExceeded" )
            => /\ Is(results[c][i], 500, "RECIPE_EXECUTION")
               /\ results[c][i].Error[1].Message = ended[c][i][1].Err[1].Text
               /\ results[c][i].Data = Nil
               /\ panicCalls[c][i] = << >>

\* A returned call: the first handler returned the error "failed" along
\* with a value and was answered 500 / RECIPE_EXECUTION "failed", the second
\* returned normally.
C22_Witness ==
    /\ callPc[1] = "returned"
    /\ Len(batch[1]) = 2
    /\ ended[1][1] # Nil
    /\ ended[1][1][1].Err = Some(PlainError("failed"))
    /\ ended[1][1][1].Data # Nil
    /\ Is(results[1][1], 500, "RECIPE_EXECUTION")
    /\ results[1][1].Error[1].Message = "failed"
    /\ panicCalls[1][1] = << >>
    /\ IsOK(results[1][2])

\* C23: while a handler is mid-execution nobody holds o.mu, so the Lock()
\* of a registration (and the RLock() of another task's lookup) goes
\* through: as long as registration calls remain, RegisterRecipe can take
\* its step.
C23_NoLockAcrossHandler ==
    (\E t \in Tasks : pc[t[1]][t[2]] = "running") =>
        /\ mu = 0
        /\ regs < MaxRegs => ENABLED RegisterRecipe("r1", "h2", Nil)

\* A handler is still running, and the registry already holds another
\* handler for its recipe than the one it copied out: a registration
\* completed while it ran.
C23_Witness ==
    /\ Len(batch[1]) >= 1
    /\ pc[1][1] = "running"
    /\ handler[1][1] = "h1"
    /\ registry["r1"] = "h2"
    /\ regResult = RegOutcome("ok", "")

NonPositiveTimeout(opt) == opt.Name = "WithTimeout" /\ opt.N <= 0

NegativeLimit(opt) ==
    opt.Name \in {"WithMaxConcurrency", "WithMaxBatchSize"} /\ opt.N < 0

\* Option k is the first of opts that is rejected.
FirstRejected(opts, k) ==
    /\ NonPositiveTimeout(opts[k]) \/ NegativeLimit(opts[k])
    /\ \A j \in 1..(k - 1) :
          ~NonPositiveTimeout(opts[j]) /\ ~NegativeLimit(opts[j])

Constructed == newResult.Kind = "ok"

\* C24: New with a WithTimeout option of zero or less does not return an
\* Orchestrator: it panics, with "timeout must be positive" when that option
\* is the first one rejected.  A constructed Orchestrator has a timeout
\* above zero, 5 seconds when no WithTimeout option was given, and keeps it.
C24_TimeoutPositive ==
    /\ [](Constructed => timeout > 0)
    /\ [][ /\ Constructed => timeout' = timeout
           /\ ~Constructed => \A opts \in OptionLists :
                New(opts) =>
                  /\ (\E k \in 1..Len(opts) : NonPositiveTimeout(opts[k]))
                        => newResult'.Kind = "panic"
                  /\ \A k \in 1..Len(opts) :
                        (FirstRejected(opts, k) /\ NonPositiveTimeout(opts[k]))
                        => newResult' =
                             RegOutcome("panic", "timeout must be positive")
                  /\ (/\ newResult'.Kind = "ok"
                      /\ \A k \in 1..Len(opts) : opts[k].Name # "WithTimeout")
                        => timeout' = 5
         ]_vars

\* The construction ended in the panic of WithTimeout.
C24_Witness == newResult = RegOutcome("panic", "timeout must be positive")

\* C25: New with a negative WithMaxConcurrency or WithMaxBatchSize panics,
\* with the message of the first option rejected.  A constructed
\* Orchestrator has both limits at zero or above; with maxConcurrency = 0
\* the semaphore is never used and no task waits for a slot, with
\* maxBatchSize = 0 no response is 413.
C25_LimitsNonNegative ==
    /\ [](Constructed =>
            /\ maxConcurrency >= 0
            /\ maxBatchSize >= 0
            /\ maxConcurrency = 0 =>
                  /\ semaphore = 0
                  /\ \A t \in Tasks : ~Blocked(t[1], t[2])
            /\ maxBatchSize = 0 =>
                  \A c \in Callers : \A i \in 1..Len(results[c]) :
                      results[c][i].Status # 413)
    /\ [][ ~Constructed => \A opts \in OptionLists :
             New(opts) =>
               /\ (\E k \in 1..Len(opts) : NegativeLimit(opts[k]))
                     => newResult'.Kind = "panic"
               /\ \A k \in 1..Len(opts) :
                     (FirstRejected(opts, k) /\ NegativeLimit(opts[k]))
                     => newResult' =
                          RegOutcome("panic",
                              IF opts[k].Name = "WithMaxConcurrency"
                              THEN "max concurrency must be non-negative"
                              ELSE "max batch size must be non-negative")
         ]_vars

\* On an Orchestrator with both limits 0, a call of two requests has both
\* handlers running at once.
C25_Witness ==
    /\ Constructed
    /\ maxConcurrency = 0 /\ maxBatchSize = 0
    /\ Len(batch[1]) = 2
    /\ pc[1][1] = "running" /\ pc[1][2] = "running"

\* The hook the last option named f of opts passes; "nil" without one.
LastHook(opts, f) ==
    LET hits == { k \in 1..Len(opts) : opts[k].Name = f }
        last == CHOOSE k \in hits : \A m \in hits : m <= k
    IN IF hits = {} THEN "nil" ELSE opts[last].Hook

\* C26: after New, each hook of the Orchestrator is the hook the last
\* option for it passed, and NoOpHook when there was no such option or it
\* passed nil; so no task ends in a nil dereference, and a handler that
\* panicked is answered 500 / PANIC whatever the panic hook is (no deadline
\* passes in this specification).
C26_HooksOptional ==
    /\ [](Constructed =>
            /\ executionHook \in {"NoOpHook", "custom"}
            /\ panicHook \in {"NoOpHook", "custom"}
            /\ \A t \in Tasks :
                  /\ pc[t[1]][t[2]] # "crashed"
                  /\ Panicked(t[1], t[2]) =>
                        Is(results[t[1]][t[2]], 500, "PANIC"))
    /\ [][ ~Constructed => \A opts \in OptionLists :
             (New(opts) /\ newResult'.Kind = "ok") =>
               /\ executionHook' =
                    IF LastHook(opts, "WithExecutionHook") = "nil"
                    THEN "NoOpHook" ELSE LastHook(opts, "WithExecutionHook")
               /\ panicHook' =
                    IF LastHook(opts, "WithPanicHook") = "nil"
                    THEN "NoOpHook" ELSE LastHook(opts, "WithPanicHook")
         ]_vars

\* A returned call on an Orchestrator with the no-op hooks: the handler
\* panicked and the response is 500 / PANIC.
C26_Witness ==
    /\ Constructed
    /\ executionHook = "NoOpHook" /\ panicHook = "NoOpHook"
    /\ callPc[1] = "returned"
    /\ Len(batch[1]) >= 1
    /\ Panicked(1, 1)
    /\ Is(results[1][1], 500, "PANIC")

\* C29: a request that fails validation never spends time waiting for a
\* concurrency slot (validation comes before acquisition).
C29_ValidationBeforeAcquire ==
    \A t \in Tasks :
        IsInvalid(batch[t[1]][t[2]]) => waited[t[1]][t[2]] = 0

\* C30: with a concurrency limit K >= 1, every call of ExecuteBatch that
\* has started its tasks eventually returns with every one of its tasks
\* finished, also when the batch is larger than K and when two calls share
\* the semaphore.
C30_EveryCallReturns ==
    \A c \in Callers :
        (callPc[c] = "waiting") ~>
            (/\ callPc[c] = "returned"
             /\ \A i \in 1..Len(batch[c]) : pc[c][i] = "done")

\* Both calls have returned on an Orchestrator whose limit is below the
\* number of requests submitted, and both ran a handler.
C30_Witness ==
    /\ maxConcurrency >= 1
    /\ Len(batch[1]) + Len(batch[2]) > maxConcurrency
    /\ callPc[1] = "returned" /\ callPc[2] = "returned"
    /\ handlerCalls[1][1] = 1 /\ handlerCalls[2][1] = 1

\* C31: a task whose handler is still running when the deadline of its
\* context has passed is resolved at the deadline: its result slot holds
\* 504 / TIMEOUT while the handler goes on running.
C31_ResolvedAtDeadline ==
    \A t \in Tasks :
        (pc[t[1]][t[2]] = "running" /\ taskErr[t[1]][t[2]] = "DeadlineExceeded")
            => Is(results[t[1]][t[2]], 504, "TIMEOUT")

\* C32: a handler is invoked at most once for a request; once its task is
\* finished, exactly once when the request has no empty field, the batch is
\* within the limit and the recipe is registered, and not at all otherwise;
\* a call that ended in an error, a panic or after the deadline was the
\* only one.
C32_NoRetries ==
    \A t \in Tasks :
        LET c == t[1]
            i == t[2]
            req == batch[c][i]
        IN  /\ handlerCalls[c][i] <= 1
            /\ Ended(c, i) => handlerCalls[c][i] = 1
            /\ Written(c, i) =>
                  handlerCalls[c][i] =
                      IF NoEmptyField(req) /\ req.Recipe \in DOMAIN registry
                      THEN 1 ELSE 0
            /\ Oversize(c) => handlerCalls[c][i] = 0

\* A returned call of two requests: one handler panicked, the other ended
\* after its deadline with an error; each was invoked once.
C32_Witness ==
    /\ callPc[1] = "returned"
    /\ Len(batch[1]) = 2
    /\ Panicked(1, 1)
    /\ Is(results[1][1], 500, "PANIC")
    /\ Ended(1, 2)
    /\ ended[1][2][1].Err # Nil
    /\ Is(results[1][2], 504, "TIMEOUT")
    /\ handlerCalls[1][1] = 1 /\ handlerCalls[1][2] = 1

\* C33: once the result array of a call is made, a slot changes only in the
\* step in which the task of that index finishes, from the zero Response to
\* the task's response, while the call is waiting in wg.Wait(); every other
\* slot is left as it was in that step, and no slot changes after the call
\* has returned.
C33_SlotWrittenOnce ==
    [][\A c \in Callers : \A i \in 1..Len(results[c]) :
          LET finishes == /\ pc[c][i] \in {"acquire", "lookup", "running"}
                          /\ pc'[c][i] = "wgdone"
          IN  /\ Len(results'[c]) = Len(results[c])
              /\ IF finishes
                 THEN /\ callPc[c] = "waiting"
                      /\ results[c][i] = ZeroResponse
                      /\ results'[c][i].Status # 0
                      /\ results'[c][i].ID = batch[c][i].ID
                 ELSE results'[c][i] = results[c][i]
    ]_vars

\* The second task of a call has finished and its slot is written, while
\* the slot of the first, whose handler is running, is still the zero
\* Response.
C33_Witness ==
    /\ Len(batch[1]) = 2
    /\ batch[1][1].ID # batch[1][2].ID
    /\ callPc[1] = "waiting"
    /\ pc[1][1] = "running"
    /\ results[1][1] = ZeroResponse
    /\ pc[1][2] = "done"
    /\ results[1][2].ID = batch[1][2].ID
    /\ results[1][2].Status = 400

C35_SameRegistration ==
    [][\A t \in Tasks :
          (pc[t[1]][t[2]] = "lookup" /\ pc'[t[1]][t[2]] = "running") =>
              taskTimeout[t[1]][t[2]] =
                  EffectiveTimeout(recipeOptions, timeout,
                                   batch[t[1]][t[2]].Recipe)
    ]_vars

\* C36: a RegisterRecipe call with a name, a handler and no option replaces
\* the whole entry: afterwards no override is in force for that name, and
\* tasks for it resolve the default timeout.
C36_OverwriteDropsOverride ==
    [][\A a \in RegisterArgs :
          ( /\ regs' # regs
            /\ a[1] # "" /\ a[2] # "nil" /\ a[3] = Nil
            /\ RegisterRecipe(a[1], a[2], a[3]) ) =>
              EffectiveTimeout(recipeOptions', timeout, a[1]) = timeout
    ]_vars

\* The responses of call c at the indices of the requests of one tenant.
OfTenant(c, tenantID) ==
    LET ix == SelectSeq([i \in 1..Len(batch[c]) |-> i],
                        LAMBDA i : batch[c][i].TenantID = tenantID)
    IN  [k \in 1..Len(ix) |-> results[c][ix[k]]]

\* C37: every response a task has written, and every response of a returned
\* call (the 413s included), carries the tenant of the request at its
\* index, the empty tenant of an invalid request too; so FilterByTenant
\* over the results of a returned call yields exactly the responses at the
\* indices of that tenant's requests, in order.
C37_TenantPreserved ==
    \A c \in Callers :
        /\ \A i \in 1..Len(batch[c]) :
              (Written(c, i) \/ callPc[c] = "returned") =>
                  results[c][i].TenantID = batch[c][i].TenantID
        /\ callPc[c] = "returned" =>
              \A tenantID \in {"", "a", "b"} :
                  FilterByTenant(results[c], tenantID) = OfTenant(c, tenantID)

\* A returned call for the tenants a and b: a's request was answered 200,
\* b's 404, and the filter for b yields the second response alone.
C37_Witness ==
    /\ callPc[1] = "returned"
    /\ Len(batch[1]) = 2
    /\ batch[1][1].TenantID = "a" /\ batch[1][2].TenantID = "b"
    /\ IsOK(results[1][1])
    /\ Is(results[1][2], 404, "RECIPE_NOT_FOUND")
    /\ FilterByTenant(results[1], "b") = << results[1][2] >>
    /\ FilterByTenant(results[1], "a") = << results[1][1] >>

\* The seven (status, code) pairs of the taxonomy.
InTaxonomy(r) ==
    \/ IsOK(r)
    \/ Is(r, 400, "INVALID_REQUEST")
    \/ Is(r, 404, "RECIPE_NOT_FOUND")
    \/ Is(r, 413, "BATCH_TOO_LARGE")
    \/ Is(r, 500, "RECIPE_EXECUTION")
    \/ Is(r, 500, "PANIC")
    \/ Is(r, 504, "TIMEOUT")

\* C38: every response of a returned call, every response a task has
\* written and every response handed to OnComplete has one of the seven
\* (status, code) pairs of the taxonomy; in particular no slot of a returned
\* call is the zero Response.
C38_FixedTaxonomy ==
    \A c \in Callers :
        /\ callPc[c] = "returned" =>
              \A i \in 1..Len(results[c]) : InTaxonomy(results[c][i])
        /\ \A i \in 1..Len(batch[c]) :
              /\ Written(c, i) => InTaxonomy(results[c][i])
              /\ \A k \in 1..Len(completeCalls[c][i]) :
                    InTaxonomy(completeCalls[c][i][k])

\* Both calls have returned: the handler of the first ended after its
\* deadline (504 / TIMEOUT), the handler of the second panicked within it
\* (500 / PANIC).
C38_Witness ==
    /\ callPc[1] = "returned" /\ callPc[2] = "returned"
    /\ Len(batch[1]) = 1 /\ Len(batch[2]) = 1
    /\ Is(results[1][1], 504, "TIMEOUT")
    /\ Is(results[2][1], 500, "PANIC")

\* C39: a call whose batch is not longer than maxBatchSize, or any call
\* when maxBatchSize is 0, is executed: a task is started for every request,
\* no response is 413, and when the call has returned the handler of every
\* complete request for a registered recipe was invoked.
C39_StrictLimit ==
    \A c \in Callers :
        ( /\ callPc[c] \in {"waiting", "returned"}
          /\ maxBatchSize = 0 \/ Len(batch[c]) <= maxBatchSize ) =>
            \A i \in 1..Len(batch[c]) :
                /\ pc[c][i] # "idle"
                /\ results[c][i].Status # 413
                /\ ( /\ callPc[c] = "returned"
                     /\ NoEmptyField(batch[c][i])
                     /\ batch[c][i].Recipe \in DOMAIN registry ) =>
                        handlerCalls[c][i] = 1

\* Under a limit of one, a call of exactly one request has returned with
\* 200.
C39_Witness ==
    /\ maxBatchSize = 1
    /\ Len(batch[1]) = 1
    /\ callPc[1] = "returned"
    /\ handlerCalls[1][1] = 1
    /\ IsOK(results[1][1])

\* C40: from the start of a call on, the context the caller passed is what
\* it was: the accessors return on it what they returned before, during
\* and after the call.  The context of a task is derived from it: it
\* carries the caller's values and, on top, the ids of its own request.
\* The caller's context becomes done in no step of a task and at no task's
\* deadline, and the error of a task's context changes only in a step of
\* that task (creation, deferred cancel), at its own deadline, or when the
\* caller's context becomes done.
C40_CallerContextUnchanged ==
    /\ [](\A t \in Tasks :
            HasLiveCtx(t[1], t[2]) =>
                /\ Len(taskCtx[t[1]][t[2]]) = Len(batchCtx[t[1]]) + 3
                /\ SubSeq(taskCtx[t[1]][t[2]], 1, Len(batchCtx[t[1]]))
                       = batchCtx[t[1]])
    /\ [][\A c \in Callers :
            /\ callPc[c] # "ready" =>
                  /\ batchCtx'[c] = batchCtx[c]
                  /\ Accessors(batchCtx'[c]) = Accessors(batchCtx[c])
            /\ batchErr'[c] # batchErr[c] => (pc' = pc /\ timer' = timer)
            /\ \A i \in 1..Len(batch[c]) :
                  taskErr'[c][i] # taskErr[c][i] =>
                      \/ pc'[c][i] # pc[c][i]
                      \/ timer[c][i] = 1 /\ taskErr'[c][i] = "DeadlineExceeded"
                      \/ /\ batchErr'[c] # batchErr[c]
                         /\ taskErr'[c][i] = batchErr'[c]
       ]_vars

\* The caller passed a context with the tenant b; the call has returned
\* and the context still yields b and nothing else.  The context of the
\* first task had expired while the second task, for the tenant a, was
\* still within its deadline.
C40_Witness ==
    /\ callPc[1] = "returned"
    /\ Len(batch[1]) = 2
    /\ batch[1][2].TenantID = "a"
    /\ Accessors(batchCtx[1]) = << <<"b", TRUE>>, <<"", FALSE>>, <<"", FALSE>> >>
    /\ batchErr[1] = "none"
    /\ Is(results[1][1], 504, "TIMEOUT")
    /\ IsOK(results[1][2])
    /\ TenantID(taskCtx[1][2]) = << "a", TRUE >>

====
